---- MODULE Spec2Model ----
(***************************************************************************)
(* Chore App (App.tsx): the profile held by the App component, the chore   *)
(* subscription effect, the create-chore command and the upload-proof      *)
(* pipeline, together with the external stores they talk to (AsyncStorage, *)
(* the Firestore "chores" collection, Firebase Storage).                   *)
(*                                                                         *)
(* JavaScript values are tagged records, so that null, undefined, strings  *)
(* and timestamps stay distinct.  Text is a sequence of one-character      *)
(* strings, so trim() and toLowerCase() are computed, not assumed.         *)
(*                                                                         *)
(* A React state update and the effect run it schedules (cleanup of the    *)
(* previous effect, then the effect body) are one step.  Every await is a  *)
(* step boundary: the continuation after it is a separate action.          *)
(***************************************************************************)
EXTENDS Integers, Sequences, FiniteSets, TLC

VARIABLES
    profile,         \* useState<Profile | null>              App.tsx:36
    loadingProfile,  \* useState(true)                        App.tsx:37
    chores,          \* useState<Chore[]>([]) (the held list) App.tsx:38
    loadingChores,   \* useState(false)                       App.tsx:39
    stored,          \* AsyncStorage value under FAMILY_STORAGE_KEY
    kvOps,           \* AsyncStorage writes issued and not yet settled (FIFO)
    subs,            \* Firestore listeners registered and not unsubscribed
    effectSub,       \* id of the listener owned by the current effect, 0 if none
    nextSub,         \* id the next onSnapshot call gets
    torn,            \* ids of the listeners whose effect cleanup has run
    remote,          \* the Firestore "chores" collection, indexed by doc id
    adds,            \* addChore invocations, in invocation order
    runs,            \* uploadProof invocations, in invocation order
    storage,         \* Firebase Storage: the set of object paths written
    now,             \* the clock read by Date.now() and serverTimestamp()
    commands,        \* the number of commands the user has issued
    view             \* the chores prop of the rendered ParentView / ChildView

vars == <<profile, loadingProfile, chores, loadingChores, stored, kvOps,
          subs, effectSub, nextSub, torn, remote, adds, runs, storage, now,
          commands, view>>

\* ---------------------------------------------------------------- bounds
\* the number of commands the user issues in a session (save or switch
\* profile, add a chore, upload a proof)
MaxCommands == 2

\* the number of documents in a collection drawn for the view projector
MaxViewDocs == 2

\* the number of raw documents in a snapshot drawn for the normalization
MaxRawDocs == 2

\* ------------------------------------------------------------- JS values
Undefined == [tag |-> "undefined"]
Null == [tag |-> "null"]
Str(s) == [tag |-> "string", v |-> s]
Time(t) == [tag |-> "timestamp", v |-> t]

\* a ?? b
Coalesce(a, b) == IF a = Undefined \/ a = Null THEN b ELSE a

Whitespace == {" "}

RECURSIVE TrimStart(_)
TrimStart(s) ==
    IF s # <<>> /\ Head(s) \in Whitespace THEN TrimStart(Tail(s)) ELSE s

RECURSIVE TrimEnd(_)
TrimEnd(s) ==
    IF s # <<>> /\ s[Len(s)] \in Whitespace
    THEN TrimEnd(SubSeq(s, 1, Len(s) - 1)) ELSE s

\* String.prototype.trim
Trim(s) == TrimEnd(TrimStart(s))

LowerChar(c) ==
    CASE c = "S" -> "s"
      [] c = "A" -> "a"
      [] c = "D" -> "d"
      [] OTHER -> c

\* String.prototype.toLowerCase
ToLowerCase(s) == [i \in 1..Len(s) |-> LowerChar(s[i])]

\* ---------------------------------------------------------------- inputs
FAMILY_STORAGE_KEY == "chore-app-profile"

Roles == {"parent", "child"}
FamilyCodes == {<<"a">>, <<"b">>}
DisplayNames == {<<"S", "a", "m">>, <<"A">>}

\* the payloads handleSave passes to onSave: trimmed name, trimmed lower-cased code
AllProfiles == [displayName : DisplayNames, familyCode : FamilyCodes, role : Roles]

\* the profiles of the model: parent A and child Sam of family a, and a child
\* Sam of family b
Profiles ==
    {p \in AllProfiles :
        \/ p.role = "parent" /\ p.familyCode = <<"a">> /\ p.displayName = <<"A">>
        \/ p.role = "child" /\ p.displayName = <<"S", "a", "m">>}

NoProfile == Null

\* what the parent may have typed into the two text inputs
TitleInputs == {<<" ">>, <<" ", "D">>}
AssigneeInputs == {<<>>, <<"s", "a", "m", " ">>, <<"A">>}

\* if (stored): a non-empty string
Truthy(x) == x # Null /\ x # Undefined /\ (x.tag = "string" => x.v # <<>>)

\* JSON.stringify(payload): the keys in the order handleSave builds them
Stringify(p) ==
    <<"role", p.role, "displayName", p.displayName, "familyCode", p.familyCode>>

\* JSON.parse(stored)
Parse(s) ==
    [displayName |-> s[4], familyCode |-> s[6], role |-> s[2]]

\* ------------------------------------------------------------ view projector
\* a filter that trims both names but compares them case-sensitively
ChildChores_CaseSensitive(cs, p) ==
    IF p = NoProfile \/ p.role # "child" THEN <<>>
    ELSE SelectSeq(cs, LAMBDA c : Trim(c.assignedTo.v) = Trim(p.displayName))

\* childChores (useMemo)
ChildChores(cs, p) ==
    IF p = NoProfile \/ p.role # "child" THEN <<>>
    ELSE SelectSeq(cs, LAMBDA c :
             Trim(ToLowerCase(c.assignedTo.v)) = Trim(ToLowerCase(p.displayName)))

\* profile.role === "parent" ? <ParentView chores={chores} />
\*                            : <ChildView chores={childChores} />
\* (ProfileSetup, which shows no list, while there is no profile)
View(cs, p) ==
    IF p = NoProfile THEN <<>>
    ELSE IF p.role = "parent" THEN cs ELSE ChildChores(cs, p)

\* ------------------------------------------------- chore subscription effect
\* unsubscribe(): Firestore removes the listener, which is never called again
Unsubscribe(S, id) == {s \in S : s.id # id}

\* a cleanup that forgets to call unsubscribe
EffectCleanup_NoUnsubscribe(S, id) == S

\* return () => unsubscribe()
EffectCleanup(S, id) == Unsubscribe(S, id)

\* where("familyCode", "==", f), orderBy("createdAt", "desc")
Matches(f) ==
    {i \in 1..Len(remote) :
        /\ remote[i].familyCode = Str(f)
        /\ remote[i].createdAt.tag = "timestamp"}

RECURSIVE OrderDesc(_)
OrderDesc(ids) ==
    IF ids = {} THEN <<>>
    ELSE LET top == CHOOSE i \in ids : \A j \in ids :
                        \/ remote[j].createdAt.v < remote[i].createdAt.v
                        \/ (remote[j].createdAt.v = remote[i].createdAt.v /\ j <= i)
         IN  <<top>> \o OrderDesc(ids \ {top})

QueryDocs(f) == OrderDesc(Matches(f))

\* a conversion that takes every field as it is stored
Normalize_NoDefaults(id, data) ==
    [id          |-> id,
     title       |-> data.title,
     assignedTo  |-> data.assignedTo,
     familyCode  |-> data.familyCode,
     status      |-> data.status,
     photoUrl    |-> data.photoUrl,
     completedBy |-> data.completedBy,
     createdAt   |-> data.createdAt,
     completedAt |-> data.completedAt]

\* snapshot.docs.map((docSnap) => ...)
Normalize(id, data) ==
    [id          |-> id,
     title       |-> Coalesce(data.title, Str(<<"Untitled chore">>)),
     assignedTo  |-> Coalesce(data.assignedTo, Str(<<>>)),
     familyCode  |-> Coalesce(data.familyCode, Str(<<>>)),
     status      |-> Coalesce(data.status, Str(<<"pending">>)),
     photoUrl    |-> data.photoUrl,
     completedBy |-> data.completedBy,
     createdAt   |-> data.createdAt,
     completedAt |-> data.completedAt]

\* the callback's list for a snapshot holding the documents ids, in order
SnapshotOf(ids) == [k \in 1..Len(ids) |-> Normalize(ids[k], remote[ids[k]])]

Snapshot(f) == SnapshotOf(QueryDocs(f))

\* The effect of [profile]: the previous run's cleanup, then the body for p.
ProfileEffect(p) ==
    LET cleaned == EffectCleanup(subs, effectSub)
    IN  /\ torn' = IF effectSub # 0 THEN torn \cup {effectSub} ELSE torn
        /\ IF p = NoProfile
           THEN /\ subs' = cleaned
                /\ effectSub' = 0
                /\ UNCHANGED <<nextSub, loadingChores>>
           ELSE /\ loadingChores' = TRUE
                /\ subs' = cleaned \cup
                       {[id |-> nextSub, familyCode |-> p.familyCode,
                         live |-> TRUE, alerts |-> <<>>]}
                /\ effectSub' = nextSub
                /\ nextSub' = nextSub + 1

\* a callback that adds the delivered chores to the ones already held
OnSnapshotNext_Append(s) ==
    /\ s \in subs
    /\ s.live
    /\ chores' = chores \o Snapshot(s.familyCode)
    /\ loadingChores' = FALSE
    /\ UNCHANGED <<profile, loadingProfile, stored, kvOps, subs, effectSub,
                   nextSub, torn, remote, adds, runs, storage, now, commands>>
    /\ view' = View(chores', profile')

\* (snapshot) => { setChores(next); setLoadingChores(false) }
OnSnapshotNext(s) ==
    /\ s \in subs
    /\ s.live
    /\ chores' = Snapshot(s.familyCode)
    /\ loadingChores' = FALSE
    /\ UNCHANGED <<profile, loadingProfile, stored, kvOps, subs, effectSub,
                   nextSub, torn, remote, adds, runs, storage, now, commands>>
    /\ view' = View(chores', profile')

\* an error callback that also empties the held list
OnSnapshotError_Clears(s) ==
    /\ s \in subs
    /\ s.live
    /\ chores' = <<>>
    /\ loadingChores' = FALSE
    /\ subs' = (subs \ {s}) \cup
           {[s EXCEPT !.live = FALSE, !.alerts = Append(@, "Sync error")]}
    /\ UNCHANGED <<profile, loadingProfile, stored, kvOps, effectSub,
                   nextSub, torn, remote, adds, runs, storage, now, commands>>
    /\ view' = View(chores', profile')

\* (error) => { Alert.alert("Sync error", ...); setLoadingChores(false) }
\* Firestore ends a listener that failed: it delivers nothing after the error.
OnSnapshotError(s) ==
    /\ s \in subs
    /\ s.live
    /\ loadingChores' = FALSE
    /\ subs' = (subs \ {s}) \cup
           {[s EXCEPT !.live = FALSE, !.alerts = Append(@, "Sync error")]}
    /\ UNCHANGED <<profile, loadingProfile, chores, stored, kvOps, effectSub,
                   nextSub, torn, remote, adds, runs, storage, now, commands,
                   view>>

\* ------------------------------------------------------------ identity store
\* AsyncStorage.getItem(...).then(stored => stored && setProfile(JSON.parse(stored)))
\*            .finally(() => setLoadingProfile(false))
LoadResolve ==
    /\ loadingProfile
    /\ loadingProfile' = FALSE
    /\ IF Truthy(stored)
       THEN /\ profile' = Parse(stored.v)
            /\ ProfileEffect(Parse(stored.v))
       ELSE UNCHANGED <<profile, subs, effectSub, nextSub, torn, loadingChores>>
    /\ UNCHANGED <<chores, stored, kvOps, remote, adds, runs, storage, now,
                   commands>>
    /\ view' = View(chores', profile')

LoadReject ==
    /\ loadingProfile
    /\ loadingProfile' = FALSE
    /\ UNCHANGED <<profile, chores, loadingChores, stored, kvOps, subs,
                   effectSub, nextSub, torn, remote, adds, runs, storage, now,
                   commands, view>>

\* saveProfile, up to its await; it is reachable from ProfileSetup only,
\* which is rendered while profile is null
SaveProfile(payload) ==
    /\ ~loadingProfile
    /\ profile = NoProfile
    /\ commands < MaxCommands
    /\ commands' = commands + 1
    /\ profile' = payload
    /\ ProfileEffect(payload)
    /\ kvOps' = Append(kvOps, [op |-> "setItem", value |-> Str(Stringify(payload))])
    /\ UNCHANGED <<loadingProfile, chores, stored, remote, adds, runs, storage, now>>
    /\ view' = View(chores', profile')

\* resetProfile, up to its await; the Switch button is rendered with a profile
ResetProfile ==
    /\ ~loadingProfile
    /\ profile # NoProfile
    /\ commands < MaxCommands
    /\ commands' = commands + 1
    /\ kvOps' = Append(kvOps, [op |-> "removeItem", value |-> Null])
    /\ UNCHANGED <<profile, loadingProfile, chores, loadingChores, stored, subs,
                   effectSub, nextSub, torn, remote, adds, runs, storage, now,
                   view>>

\* the oldest AsyncStorage write succeeds; after removeItem, setProfile(null)
KvResolve ==
    /\ kvOps # <<>>
    /\ kvOps' = Tail(kvOps)
    /\ IF Head(kvOps).op = "setItem"
       THEN /\ stored' = Head(kvOps).value
            /\ UNCHANGED <<profile, subs, effectSub, nextSub, torn, loadingChores>>
       ELSE /\ stored' = Null
            /\ profile' = NoProfile
            /\ IF profile # NoProfile
               THEN ProfileEffect(NoProfile)
               ELSE UNCHANGED <<subs, effectSub, nextSub, torn, loadingChores>>
    /\ UNCHANGED <<loadingProfile, chores, remote, adds, runs, storage, now,
                   commands>>
    /\ view' = View(chores', profile')

\* the oldest AsyncStorage write fails: the await throws, nothing follows it
KvReject ==
    /\ kvOps # <<>>
    /\ kvOps' = Tail(kvOps)
    /\ UNCHANGED <<profile, loadingProfile, chores, loadingChores, stored, subs,
                   effectSub, nextSub, torn, remote, adds, runs, storage, now,
                   commands, view>>

\* ------------------------------------------------------------- create chore
\* fields built from the text as typed
NewChoreFields_NoTrim(title, assignee, p) ==
    [title      |-> Str(title),
     assignedTo |-> Str(assignee),
     familyCode |-> Str(p.familyCode),
     status     |-> Str(<<"pending">>),
     photoUrl   |-> Null,
     createdAt  |-> [tag |-> "serverTimestamp"]]

\* the fields addChore hands to addDoc; serverTimestamp() is filled in on commit
NewChoreFields(title, assignee, p) ==
    [title      |-> Str(Trim(title)),
     assignedTo |-> Str(Trim(assignee)),
     familyCode |-> Str(p.familyCode),
     status     |-> Str(<<"pending">>),
     photoUrl   |-> Null,
     createdAt  |-> [tag |-> "serverTimestamp"]]

\* addDoc commits: a new document under a fresh id
CreateDoc(fields, t) ==
    [title       |-> fields.title,
     assignedTo  |-> fields.assignedTo,
     familyCode  |-> fields.familyCode,
     status      |-> fields.status,
     photoUrl    |-> fields.photoUrl,
     completedBy |-> Undefined,
     createdAt   |-> Time(t),
     completedAt |-> Undefined]

\* addChore, up to its await; the Add button is in ParentView (role parent).
\* Each invocation is recorded with what was typed (title, assignee) and the
\* profile of the render it was issued from.
AddChore(title, assignee) ==
    /\ ~loadingProfile
    /\ profile # NoProfile
    /\ profile.role = "parent"
    /\ commands < MaxCommands
    /\ commands' = commands + 1
    /\ IF Trim(title) = <<>> \/ Trim(assignee) = <<>>
       THEN adds' = Append(adds, [pc |-> "invalid", fields |-> Undefined,
                                  alerts |-> <<"Missing info">>, issued |-> 0,
                                  title |-> title, assignee |-> assignee,
                                  profile |-> profile])
       ELSE adds' = Append(adds, [pc |-> "addDoc",
                                  fields |-> NewChoreFields(title, assignee, profile),
                                  alerts |-> <<>>, issued |-> 1,
                                  title |-> title, assignee |-> assignee,
                                  profile |-> profile])
    /\ UNCHANGED <<profile, loadingProfile, chores, loadingChores, stored, kvOps,
                   subs, effectSub, nextSub, torn, remote, runs, storage, now,
                   view>>

AddDocResolve(i) ==
    /\ i \in 1..Len(adds)
    /\ adds[i].pc = "addDoc"
    /\ remote' = Append(remote, CreateDoc(adds[i].fields, now))
    /\ now' = now + 1
    /\ adds' = [adds EXCEPT ![i].pc = "done"]
    /\ UNCHANGED <<profile, loadingProfile, chores, loadingChores, stored, kvOps,
                   subs, effectSub, nextSub, torn, runs, storage, commands,
                   view>>

\* catch: Alert.alert("Save failed", ...)
AddDocReject(i) ==
    /\ i \in 1..Len(adds)
    /\ adds[i].pc = "addDoc"
    /\ adds' = [adds EXCEPT ![i].pc = "failed",
                            ![i].alerts = Append(@, "Save failed")]
    /\ UNCHANGED <<profile, loadingProfile, chores, loadingChores, stored, kvOps,
                   subs, effectSub, nextSub, torn, remote, runs, storage, now,
                   commands, view>>

\* ------------------------------------------------------------ upload proof
\* a path without the Date.now() component
ProofPath_NoTimestamp(familyCode, choreId, ts) ==
    [dir |-> "choreProofs", familyCode |-> familyCode, choreId |-> choreId,
     ts |-> 0, ext |-> ".jpg"]

\* `choreProofs/${profile.familyCode}/${chore.id}-${Date.now()}.jpg`
ProofPath(familyCode, choreId, ts) ==
    [dir |-> "choreProofs", familyCode |-> familyCode, choreId |-> choreId,
     ts |-> ts, ext |-> ".jpg"]

RunPath(r) == ProofPath(r.profile.familyCode, r.chore, r.ts)

\* getDownloadURL(storageRef): a string that names the object
DownloadUrl(path) == [tag |-> "string", v |-> <<"https://">>, object |-> path]

\* an update that toggles the status instead of setting it
UpdateFields_Toggle(r) ==
    [status      |-> IF remote[r.chore].status = Str(<<"completed">>)
                     THEN Str(<<"pending">>) ELSE Str(<<"completed">>),
     photoUrl    |-> r.downloadUrl,
     completedBy |-> Str(r.profile.displayName),
     completedAt |-> Time(now)]

\* an update that does not say who completed the chore
UpdateFields_NoCompletedBy(r) ==
    [status      |-> Str(<<"completed">>),
     photoUrl    |-> r.downloadUrl,
     completedBy |-> Undefined,
     completedAt |-> Time(now)]

\* an update that names the profile of the current render, not of the run
UpdateFields_CurrentProfile(r) ==
    [status      |-> Str(<<"completed">>),
     photoUrl    |-> r.downloadUrl,
     completedBy |-> IF profile = NoProfile THEN Undefined
                     ELSE Str(profile.displayName),
     completedAt |-> Time(now)]

\* the partial document uploadProof hands to updateDoc
UpdateFields(r) ==
    [status      |-> Str(<<"completed">>),
     photoUrl    |-> r.downloadUrl,
     completedBy |-> Str(r.profile.displayName),
     completedAt |-> Time(now)]

\* a write that replaces the document (setDoc without merge)
MergeDoc_Replace(data, fields) ==
    [k \in DOMAIN data |-> IF k \in DOMAIN fields THEN fields[k] ELSE Undefined]

\* updateDoc merges the given fields into the document and keeps the others
MergeDoc(data, fields) ==
    [k \in DOMAIN data |-> IF k \in DOMAIN fields THEN fields[k] ELSE data[k]]

Terminal == {"denied", "cancelled", "failed", "done"}

\* onPress={() => onUploadProof(chore)}: the button is on a card of ChildView,
\* for a chore of childChores that is not completed; uploadProof closes over
\* the profile of the render and starts by requesting permission
UploadProof(k) ==
    /\ ~loadingProfile
    /\ profile # NoProfile
    /\ profile.role = "child"
    /\ ~loadingChores
    /\ commands < MaxCommands
    /\ commands' = commands + 1
    /\ k \in 1..Len(ChildChores(chores, profile))
    /\ ChildChores(chores, profile)[k].status # Str(<<"completed">>)
    /\ runs' = Append(runs, [chore   |-> ChildChores(chores, profile)[k].id,
                             profile |-> profile,
                             pc      |-> "permission",
                             permissionResult |-> Undefined,
                             pickerResult     |-> Undefined,
                             ts          |-> 0,
                             uploaded    |-> FALSE,
                             downloadUrl |-> Undefined,
                             error       |-> Undefined,
                             alerts  |-> <<>>,
                             uploads |-> 0,
                             updates |-> 0])
    /\ UNCHANGED <<profile, loadingProfile, chores, loadingChores, stored, kvOps,
                   subs, effectSub, nextSub, torn, remote, adds, storage, now,
                   view>>

RunAt(r, pc) == r \in 1..Len(runs) /\ runs[r].pc = pc

RunFrame ==
    UNCHANGED <<profile, loadingProfile, chores, loadingChores, stored, kvOps,
                subs, effectSub, nextSub, torn, adds, commands, view>>

\* catch (error): Alert.alert("Upload failed", ...); error names the call that threw
UploadFailed(r, call) ==
    runs' = [runs EXCEPT ![r].pc = "failed",
                         ![r].error = Str(<<call>>),
                         ![r].alerts = Append(@, "Upload failed")]

\* a permission check whose denied branch alerts but does not return
PermissionResolve_NoReturn(r, granted) ==
    /\ RunAt(r, "permission")
    /\ IF granted
       THEN runs' = [runs EXCEPT ![r].pc = "picker",
                                 ![r].permissionResult = [granted |-> TRUE]]
       ELSE runs' = [runs EXCEPT ![r].pc = "picker",
                                 ![r].permissionResult = [granted |-> FALSE],
                                 ![r].alerts = Append(@, "Permission needed")]
    /\ RunFrame
    /\ UNCHANGED <<remote, storage, now>>

\* requestMediaLibraryPermissionsAsync() resolves
PermissionResolve(r, granted) ==
    /\ RunAt(r, "permission")
    /\ IF granted
       THEN runs' = [runs EXCEPT ![r].pc = "picker",
                                 ![r].permissionResult = [granted |-> TRUE]]
       ELSE runs' = [runs EXCEPT ![r].pc = "denied",
                                 ![r].permissionResult = [granted |-> FALSE],
                                 ![r].alerts = Append(@, "Permission needed")]
    /\ RunFrame
    /\ UNCHANGED <<remote, storage, now>>

PickerResults == {"canceled", "noAssets", "asset"}

\* a picker check that tests canceled only, not an empty asset list
PickerResolve_CanceledOnly(r, result) ==
    /\ RunAt(r, "picker")
    /\ IF result = "canceled"
       THEN runs' = [runs EXCEPT ![r].pc = "cancelled", ![r].pickerResult = Str(<<result>>)]
       ELSE runs' = [runs EXCEPT ![r].pc = "fetch", ![r].pickerResult = Str(<<result>>)]
    /\ RunFrame
    /\ UNCHANGED <<remote, storage, now>>

\* launchImageLibraryAsync() resolves
PickerResolve(r, result) ==
    /\ RunAt(r, "picker")
    /\ IF result = "canceled" \/ result = "noAssets"
       THEN runs' = [runs EXCEPT ![r].pc = "cancelled", ![r].pickerResult = Str(<<result>>)]
       ELSE runs' = [runs EXCEPT ![r].pc = "fetch", ![r].pickerResult = Str(<<result>>)]
    /\ RunFrame
    /\ UNCHANGED <<remote, storage, now>>

\* fetch(asset.uri) and response.blob() resolve; Date.now() is read and
\* uploadBytes is issued
FetchResolve(r) ==
    /\ RunAt(r, "fetch")
    /\ runs' = [runs EXCEPT ![r].pc = "uploadBytes",
                            ![r].ts = now,
                            ![r].uploads = @ + 1]
    /\ RunFrame
    /\ UNCHANGED <<remote, storage, now>>

FetchReject(r) ==
    /\ RunAt(r, "fetch")
    /\ UploadFailed(r, "fetch")
    /\ RunFrame
    /\ UNCHANGED <<remote, storage, now>>

\* uploadBytes resolves: the object is in storage; getDownloadURL is issued.
\* An upload takes time: the clock is later than when the path was built.
UploadBytesResolve(r) ==
    /\ RunAt(r, "uploadBytes")
    /\ storage' = storage \cup {RunPath(runs[r])}
    /\ now' = now + 1
    /\ runs' = [runs EXCEPT ![r].pc = "getDownloadURL", ![r].uploaded = TRUE]
    /\ RunFrame
    /\ UNCHANGED remote

\* an upload whose failure is swallowed: the run goes on to getDownloadURL
UploadBytesReject_Swallowed(r) ==
    /\ RunAt(r, "uploadBytes")
    /\ now' = now + 1
    /\ storage' = storage \cup {RunPath(runs[r])}
    /\ runs' = [runs EXCEPT ![r].pc = "getDownloadURL",
                            ![r].error = Str(<<"uploadBytes">>)]
    /\ RunFrame
    /\ UNCHANGED remote

UploadBytesReject(r) ==
    /\ RunAt(r, "uploadBytes")
    /\ now' = now + 1
    /\ UploadFailed(r, "uploadBytes")
    /\ RunFrame
    /\ UNCHANGED <<remote, storage>>

\* getDownloadURL resolves for an object that exists; updateDoc is issued
GetDownloadURLResolve(r) ==
    /\ RunAt(r, "getDownloadURL")
    /\ RunPath(runs[r]) \in storage
    /\ runs' = [runs EXCEPT ![r].pc = "updateDoc",
                            ![r].downloadUrl = DownloadUrl(RunPath(runs[r])),
                            ![r].updates = @ + 1]
    /\ RunFrame
    /\ UNCHANGED <<remote, storage, now>>

GetDownloadURLReject(r) ==
    /\ RunAt(r, "getDownloadURL")
    /\ UploadFailed(r, "getDownloadURL")
    /\ RunFrame
    /\ UNCHANGED <<remote, storage, now>>

\* an update that keeps the photo the document already has
UpdateDocResolve_KeepPhoto(r) ==
    /\ RunAt(r, "updateDoc")
    /\ runs[r].chore \in 1..Len(remote)
    /\ remote' = [remote EXCEPT ![runs[r].chore] =
                      MergeDoc(@, [UpdateFields(runs[r]) EXCEPT !.photoUrl =
                                      IF remote[runs[r].chore].photoUrl = Null
                                      THEN @ ELSE remote[runs[r].chore].photoUrl])]
    /\ runs' = [runs EXCEPT ![r].pc = "done"]
    /\ RunFrame
    /\ UNCHANGED <<storage, now>>

\* updateDoc commits
UpdateDocResolve(r) ==
    /\ RunAt(r, "updateDoc")
    /\ runs[r].chore \in 1..Len(remote)
    /\ remote' = [remote EXCEPT ![runs[r].chore] = MergeDoc(@, UpdateFields(runs[r]))]
    /\ runs' = [runs EXCEPT ![r].pc = "done"]
    /\ RunFrame
    /\ UNCHANGED <<storage, now>>

\* a failed update that is issued again
UpdateDocReject_Retry(r) ==
    /\ RunAt(r, "updateDoc")
    /\ runs' = [runs EXCEPT ![r].updates = @ + 1]
    /\ RunFrame
    /\ UNCHANGED <<remote, storage, now>>

UpdateDocReject(r) ==
    /\ RunAt(r, "updateDoc")
    /\ UploadFailed(r, "updateDoc")
    /\ RunFrame
    /\ UNCHANGED <<remote, storage, now>>

\* ------------------------------------------------------------- specification
\* the chore that parent A of family a added for Sam before this session
EarlierChore ==
    CreateDoc(NewChoreFields(<<" ", "D">>, <<"s", "a", "m", " ">>,
                  [displayName |-> <<"A">>, familyCode |-> <<"a">>, role |-> "parent"]),
              0)

\* The App component mounts: the useState initial values; AsyncStorage holds
\* nothing (first launch) or the profile an earlier session saved; the chores
\* collection is empty or holds a chore added before; the bucket is empty.
Init ==
    /\ profile = NoProfile
    /\ loadingProfile = TRUE
    /\ chores = <<>>
    /\ loadingChores = FALSE
    /\ stored \in {Null} \cup {Str(Stringify(p)) : p \in Profiles}
    /\ kvOps = <<>>
    /\ subs = {}
    /\ effectSub = 0
    /\ nextSub = 1
    /\ torn = {}
    /\ remote \in {<<>>, <<EarlierChore>>}
    /\ adds = <<>>
    /\ runs = <<>>
    /\ storage = {}
    /\ now = 1
    /\ commands = 0
    /\ view = <<>>

Next ==
    \/ LoadResolve
    \/ LoadReject
    \/ \E payload \in Profiles : SaveProfile(payload)
    \/ ResetProfile
    \/ KvResolve
    \/ KvReject
    \/ \E s \in subs : OnSnapshotNext(s)
    \/ \E s \in subs : OnSnapshotError(s)
    \/ \E title \in TitleInputs, assignee \in AssigneeInputs : AddChore(title, assignee)
    \/ \E i \in 1..Len(adds) : AddDocResolve(i)
    \/ \E i \in 1..Len(adds) : AddDocReject(i)
    \/ \E k \in 1..Len(chores) : UploadProof(k)
    \/ \E r \in 1..Len(runs), granted \in BOOLEAN : PermissionResolve(r, granted)
    \/ \E r \in 1..Len(runs), result \in PickerResults : PickerResolve(r, result)
    \/ \E r \in 1..Len(runs) : FetchResolve(r)
    \/ \E r \in 1..Len(runs) : FetchReject(r)
    \/ \E r \in 1..Len(runs) : UploadBytesResolve(r)
    \/ \E r \in 1..Len(runs) : UploadBytesReject(r)
    \/ \E r \in 1..Len(runs) : GetDownloadURLResolve(r)
    \/ \E r \in 1..Len(runs) : GetDownloadURLReject(r)
    \/ \E r \in 1..Len(runs) : UpdateDocResolve(r)
    \/ \E r \in 1..Len(runs) : UpdateDocReject(r)

Spec == Init /\ [][Next]_vars

\* ----------------------------------------- every external operation settles
\* the continuation of run r after the await it is suspended at: the awaited
\* operation resolves or rejects
RunStep(r) ==
    \/ \E granted \in BOOLEAN : PermissionResolve(r, granted)
    \/ \E result \in PickerResults : PickerResolve(r, result)
    \/ FetchResolve(r)
    \/ FetchReject(r)
    \/ UploadBytesResolve(r)
    \/ UploadBytesReject(r)
    \/ GetDownloadURLResolve(r)
    \/ GetDownloadURLReject(r)
    \/ UpdateDocResolve(r)
    \/ UpdateDocReject(r)

\* the permission dialog, the picker, fetch, Storage and Firestore each
\* settle the promise a run awaits
SpecSettle == Spec /\ \A r \in 1..MaxCommands : WF_vars(RunStep(r))

\* ------------------------------------------------ after a profile was cleared
\* The state of a session in which the stored child profile of family "a"
\* was loaded, the family's chore was delivered, and the user pressed Switch:
\* removeItem has resolved, the profile is null, the listener is torn down
\* and ProfileSetup is shown.  The held list is still the last snapshot.
Switched ==
    /\ profile = NoProfile
    /\ loadingProfile = FALSE
    /\ remote = <<EarlierChore>>
    /\ chores = Snapshot(<<"a">>)
    /\ loadingChores = FALSE
    /\ stored = Null
    /\ kvOps = <<>>
    /\ subs = {}
    /\ effectSub = 0
    /\ nextSub = 2
    /\ torn = {1}
    /\ adds = <<>>
    /\ runs = <<>>
    /\ storage = {}
    /\ now = 1
    /\ view = <<>>

\* the session from there on, with MaxCommands further commands
InitSwitched == Switched /\ commands = 0

\* the load effect has settled, so its callbacks are not among the steps
NextSwitched ==
    \/ \E payload \in Profiles : SaveProfile(payload)
    \/ ResetProfile
    \/ KvResolve
    \/ KvReject
    \/ \E s \in subs : OnSnapshotNext(s)
    \/ \E s \in subs : OnSnapshotError(s)
    \/ \E title \in TitleInputs, assignee \in AssigneeInputs : AddChore(title, assignee)
    \/ \E i \in 1..Len(adds) : AddDocResolve(i)
    \/ \E i \in 1..Len(adds) : AddDocReject(i)
    \/ \E k \in 1..Len(chores) : UploadProof(k)
    \/ \E r \in 1..Len(runs), granted \in BOOLEAN : PermissionResolve(r, granted)
    \/ \E r \in 1..Len(runs), result \in PickerResults : PickerResolve(r, result)
    \/ \E r \in 1..Len(runs) : FetchResolve(r)
    \/ \E r \in 1..Len(runs) : FetchReject(r)
    \/ \E r \in 1..Len(runs) : UploadBytesResolve(r)
    \/ \E r \in 1..Len(runs) : UploadBytesReject(r)
    \/ \E r \in 1..Len(runs) : GetDownloadURLResolve(r)
    \/ \E r \in 1..Len(runs) : GetDownloadURLReject(r)
    \/ \E r \in 1..Len(runs) : UpdateDocResolve(r)
    \/ \E r \in 1..Len(runs) : UpdateDocReject(r)

SpecSwitched == InitSwitched /\ [][NextSwitched]_vars

\* ------------------------------------------- the view over any held list
\* The projector is a function of the held list and the profile.  Here the
\* profile is any profile of family "a", already loaded and subscribed, and
\* the collection is any short list of family "a" chores, whoever wrote
\* them (the store is schema-less: assignedTo need not be trimmed); the one
\* step is the snapshot callback, which sets the held list and renders.
ViewNames == {<<"S", "a", "m">>, <<"s", "a", "m">>, <<"A">>}

ViewAssignees ==
    {<<>>, <<"s", "a", "m">>, <<" ", "S", "a", "m", " ">>, <<"A">>}

ViewProfiles ==
    {[displayName |-> n, familyCode |-> <<"a">>, role |-> r] :
        n \in ViewNames, r \in Roles}

ViewDoc(assignee) ==
    [title       |-> Str(<<"D">>),
     assignedTo  |-> Str(assignee),
     familyCode  |-> Str(<<"a">>),
     status      |-> Str(<<"pending">>),
     photoUrl    |-> Null,
     completedBy |-> Undefined,
     createdAt   |-> Time(0),
     completedAt |-> Undefined]

ViewCollections ==
    UNION {[1..n -> {ViewDoc(a) : a \in ViewAssignees}] : n \in 0..MaxViewDocs}

InitView ==
    /\ profile \in ViewProfiles
    /\ loadingProfile = FALSE
    /\ chores = <<>>
    /\ loadingChores = TRUE
    /\ stored = Str(Stringify(profile))
    /\ kvOps = <<>>
    /\ subs = {[id |-> 1, familyCode |-> profile.familyCode,
                live |-> TRUE, alerts |-> <<>>]}
    /\ effectSub = 1
    /\ nextSub = 2
    /\ torn = {}
    /\ remote \in ViewCollections
    /\ adds = <<>>
    /\ runs = <<>>
    /\ storage = {}
    /\ now = 1
    /\ commands = 0
    /\ view = View(chores, profile)

NextView == \E s \in subs : OnSnapshotNext(s)

SpecView == InitView /\ [][NextView]_vars

\* ------------------------------------------ normalization of any raw record
\* The store is schema-less: a document may lack any of title, assignedTo,
\* familyCode and status, or hold null there.  The family query only selects
\* documents whose familyCode is the profile's, so the default for familyCode
\* can act only on a snapshot the query would not produce; here the snapshot
\* callback is applied to a snapshot of all the documents drawn, selected by
\* the query or not.
RawValues(v) == {Undefined, Null, Str(v)}

RawDocs ==
    {[title       |-> t,
      assignedTo  |-> a,
      familyCode  |-> f,
      status      |-> st,
      photoUrl    |-> Null,
      completedBy |-> Undefined,
      createdAt   |-> Time(0),
      completedAt |-> Undefined] :
        t \in {Undefined, Str(<<"D">>)},
        a \in RawValues(<<"s", "a", "m">>),
        f \in RawValues(<<"a">>),
        st \in RawValues(<<"completed">>)}

RawCollections == UNION {[1..n -> RawDocs] : n \in 1..MaxRawDocs}

InitNorm ==
    /\ profile = [displayName |-> <<"A">>, familyCode |-> <<"a">>, role |-> "parent"]
    /\ loadingProfile = FALSE
    /\ chores = <<>>
    /\ loadingChores = TRUE
    /\ stored = Str(Stringify(profile))
    /\ kvOps = <<>>
    /\ subs = {[id |-> 1, familyCode |-> profile.familyCode,
                live |-> TRUE, alerts |-> <<>>]}
    /\ effectSub = 1
    /\ nextSub = 2
    /\ torn = {}
    /\ remote \in RawCollections
    /\ adds = <<>>
    /\ runs = <<>>
    /\ storage = {}
    /\ now = 1
    /\ commands = 0
    /\ view = View(chores, profile)

\* the snapshot callback, for a snapshot holding every document drawn
OnSnapshotDocs(s) ==
    /\ s \in subs
    /\ s.live
    /\ chores' = SnapshotOf([k \in 1..Len(remote) |-> k])
    /\ loadingChores' = FALSE
    /\ UNCHANGED <<profile, loadingProfile, stored, kvOps, subs, effectSub,
                   nextSub, torn, remote, adds, runs, storage, now, commands>>
    /\ view' = View(chores', profile')

NextNorm == \E s \in subs : OnSnapshotDocs(s)

SpecNorm == InitNorm /\ [][NextNorm]_vars

\* ------------------------------------------------------------------ claims
Pending == Str(<<"pending">>)
Completed == Str(<<"completed">>)

\* C1: in every reachable state every chore of the held list has the
\* familyCode of the active profile (also between a profile change and the
\* first snapshot of the new subscription, and after a subscription error).
C1_HeldChoresOfActiveFamily ==
    profile # NoProfile =>
        \A k \in 1..Len(chores) : chores[k].familyCode = Str(profile.familyCode)

\* C2: at most one chore listener is registered at any time; it exists only
\* while a profile is present and is scoped to that profile's familyCode; a
\* step that opens a listener has released every listener that existed before.
C2_OneSubscription ==
    /\ [](/\ Cardinality(subs) <= 1
          /\ (profile = NoProfile => subs = {})
          /\ \A s \in subs : /\ profile # NoProfile
                             /\ s.familyCode = profile.familyCode
                             /\ s.id = effectSub)
    /\ [][\A n \in subs' : (\A s \in subs : s.id # n.id) =>
                               (\A s \in subs : s \notin subs' /\ s.id \in torn')]_vars

\* a profile change has happened and the listener of the new profile is open
C2_Witness ==
    /\ torn # {}
    /\ Cardinality(subs) = 1
    /\ \E s \in subs : s.id = nextSub - 1 /\ s.id > 1

\* C3: once the cleanup of a subscription has run, no snapshot or error
\* delivery of that subscription changes the held list or the loading state.
C3_NoDeliveryAfterTeardown ==
    [][\A s \in subs :
          (s.id \in torn /\ (OnSnapshotNext(s) \/ OnSnapshotError(s)))
              => (chores' = chores /\ loadingChores' = loadingChores)]_vars

\* a subscription was torn down and the one opened after it has delivered
C3_Witness ==
    /\ torn # {}
    /\ effectSub # 0
    /\ effectSub \notin torn
    /\ ~loadingChores

\* the runs of the upload-proof pipeline invoked for chore c
RunsOf(c) == {r \in 1..Len(runs) : runs[r].chore = c}

\* C4: a chore of the remote collection that is completed is not pending in
\* the next state (and is still in the collection), whatever step is taken.
C4_CompletedStaysCompleted ==
    [][\A c \in 1..Len(remote) :
          remote[c].status = Completed =>
              /\ c \in 1..Len(remote')
              /\ remote'[c].status # Pending
              /\ remote'[c].status = Completed]_vars

\* a completed chore that a second run has updated again
C4_Witness ==
    \E c \in 1..Len(remote) :
        /\ remote[c].status = Completed
        /\ Cardinality({r \in RunsOf(c) : runs[r].pc = "done"}) >= 2

\* C5: the step in which a run's updateDoc commits leaves its chore with
\* status completed, photoUrl the download URL of the object this run
\* uploaded, completedBy the displayName of the run's profile and completedAt
\* set; every other field of the chore and every other chore are unchanged.
C5_SuccessfulRunResult ==
    [][\A r \in 1..Len(runs) :
          (runs[r].pc = "updateDoc" /\ runs'[r].pc = "done") =>
              LET c    == runs[r].chore
                  path == ProofPath(runs[r].profile.familyCode, c, runs[r].ts)
              IN  /\ runs[r].uploaded
                  /\ path \in storage
                  /\ Len(remote') = Len(remote)
                  /\ remote'[c].status = Completed
                  /\ remote'[c].photoUrl = DownloadUrl(path)
                  /\ remote'[c].completedBy = Str(runs[r].profile.displayName)
                  /\ remote'[c].completedAt.tag = "timestamp"
                  /\ remote'[c].title = remote[c].title
                  /\ remote'[c].assignedTo = remote[c].assignedTo
                  /\ remote'[c].familyCode = remote[c].familyCode
                  /\ remote'[c].createdAt = remote[c].createdAt
                  /\ DOMAIN remote'[c] = DOMAIN remote[c]
                  /\ \A d \in 1..Len(remote) : d # c => remote'[d] = remote[d]]_vars

\* a run went through all four stages and its chore is completed
C5_Witness ==
    \E r \in 1..Len(runs) :
        /\ runs[r].pc = "done"
        /\ remote[runs[r].chore].status = Completed
        /\ remote[runs[r].chore].photoUrl = runs[r].downloadUrl

\* C6: a run whose permission request was denied has ended with the
\* "Permission needed" notice and has issued no upload and no update; no
\* object of the run is in storage and the denial step changes neither the
\* collection nor the storage.
C6_PermissionDenied ==
    /\ [](\A r \in 1..Len(runs) :
             runs[r].permissionResult = [granted |-> FALSE] =>
                 /\ runs[r].pc = "denied"
                 /\ runs[r].alerts = <<"Permission needed">>
                 /\ runs[r].uploads = 0
                 /\ runs[r].updates = 0
                 /\ ~runs[r].uploaded)
    /\ [][\A r \in 1..Len(runs) :
             (runs[r].permissionResult = Undefined
                  /\ runs'[r].permissionResult = [granted |-> FALSE])
                 => (remote' = remote /\ storage' = storage)]_vars

C6_Witness ==
    \E r \in 1..Len(runs) :
        runs[r].permissionResult = [granted |-> FALSE] /\ runs[r].pc = "denied"

\* C7: a run whose picker was cancelled or returned no asset has ended with
\* no notice, no upload and no update, and the step changes neither the
\* collection nor the storage.
C7_PickerCancelled ==
    /\ [](\A r \in 1..Len(runs) :
             runs[r].pickerResult \in {Str(<<"canceled">>), Str(<<"noAssets">>)} =>
                 /\ runs[r].pc = "cancelled"
                 /\ runs[r].alerts = <<>>
                 /\ runs[r].uploads = 0
                 /\ runs[r].updates = 0
                 /\ ~runs[r].uploaded)
    /\ [][\A r \in 1..Len(runs) :
             (runs[r].pickerResult = Undefined
                  /\ runs'[r].pickerResult \in {Str(<<"canceled">>), Str(<<"noAssets">>)})
                 => (remote' = remote /\ storage' = storage)]_vars

C7_Witness ==
    \E r \in 1..Len(runs) :
        runs[r].pickerResult = Str(<<"noAssets">>) /\ runs[r].pc = "cancelled"

UploadStageErrors == {Str(<<"fetch">>), Str(<<"uploadBytes">>), Str(<<"getDownloadURL">>)}

\* C8: a run has issued its updateDoc only after its own uploadBytes and its
\* own getDownloadURL resolved; a run that failed in the upload or the URL
\* retrieval has issued no update, its failing step leaves the collection
\* unchanged, and a chore for which no run has issued an update is pending
\* with photoUrl null.
C8_StagesSequential ==
    /\ [](/\ \A r \in 1..Len(runs) :
                /\ runs[r].updates > 0 =>
                      /\ runs[r].uploads > 0
                      /\ runs[r].uploaded
                      /\ RunPath(runs[r]) \in storage
                      /\ runs[r].downloadUrl = DownloadUrl(RunPath(runs[r]))
                      /\ runs[r].error \notin UploadStageErrors
                /\ runs[r].error \in UploadStageErrors =>
                      /\ runs[r].updates = 0
                      /\ runs[r].pc = "failed"
          /\ \A c \in 1..Len(remote) :
                (\A r \in RunsOf(c) : runs[r].updates = 0) =>
                      /\ remote[c].status = Pending
                      /\ remote[c].photoUrl = Null)
    /\ [][\A r \in 1..Len(runs) :
             (runs[r].error = Undefined /\ runs'[r].error \in UploadStageErrors)
                 => remote' = remote]_vars

\* a run failed between upload and update (the object is stored, the URL
\* retrieval threw) and its chore is still pending
C8_Witness ==
    \E r \in 1..Len(runs) :
        /\ runs[r].error = Str(<<"getDownloadURL">>)
        /\ runs[r].uploaded
        /\ remote[runs[r].chore].status = Pending

\* C9: after a run's updateDoc failed, the object it uploaded stays in
\* storage; the failing step leaves the collection unchanged, and a chore no
\* run has completed is pending with photoUrl null; a run for the same chore
\* that builds its path after that failure gets a different upload timestamp
\* and so a path different from the failed run's path.
C9_UpdateFailureLeavesOrphan ==
    /\ [](/\ \A r \in 1..Len(runs) :
                runs[r].error = Str(<<"updateDoc">>) =>
                    /\ runs[r].pc = "failed"
                    /\ runs[r].uploaded
                    /\ RunPath(runs[r]) \in storage
          /\ \A c \in 1..Len(remote) :
                (\A r \in RunsOf(c) : runs[r].pc # "done") =>
                    /\ remote[c].status = Pending
                    /\ remote[c].photoUrl = Null)
    /\ [][\A r \in 1..Len(runs) :
             /\ (runs[r].error = Undefined /\ runs'[r].error = Str(<<"updateDoc">>))
                    => remote' = remote
             /\ (runs[r].pc = "fetch" /\ runs'[r].pc = "uploadBytes") =>
                    \A q \in RunsOf(runs[r].chore) :
                        runs[q].error = Str(<<"updateDoc">>) =>
                            /\ RunPath(runs'[r]) # RunPath(runs[q])
                            /\ runs'[r].ts # runs[q].ts]_vars

\* a run failed at updateDoc, and a later run for the same chore has built
\* its path and uploaded
C9_Witness ==
    \E q, r \in 1..Len(runs) :
        /\ q < r
        /\ runs[q].chore = runs[r].chore
        /\ runs[q].error = Str(<<"updateDoc">>)
        /\ runs[r].uploaded
        /\ remote[runs[r].chore].status = Pending

\* the addChore invocations that ended in a created document
Created == {i \in 1..Len(adds) : adds[i].pc = "done"}

SameName(a, b) == Trim(ToLowerCase(a)) = Trim(ToLowerCase(b))

Assigned(cs, name) == {k \in 1..Len(cs) : SameName(cs[k].assignedTo.v, name)}

\* C11: for every held list and profile, the view of a child is exactly the
\* chores of the held list whose assignedTo, lower-cased and trimmed, equals
\* the profile's displayName, lower-cased and trimmed, in the order of the
\* held list; the view of a parent is the held list itself.
C11_ViewProjection ==
    profile # NoProfile =>
        IF profile.role = "parent"
        THEN view = chores
        ELSE LET mine == Assigned(chores, profile.displayName)
             IN  /\ Len(view) = Cardinality(mine)
                 /\ \A k \in mine :
                        view[Cardinality({j \in mine : j <= k})] = chores[k]

\* a child named "Sam" sees a chore assigned to "sam" or " Sam " and does not
\* see the chore assigned to "A" held next to it
C11_Witness ==
    /\ profile # NoProfile
    /\ profile.role = "child"
    /\ Len(view) = 1
    /\ Len(chores) = 2
    /\ view[1].assignedTo.v # profile.displayName
    /\ \E k \in 1..2 : chores[k].assignedTo.v = <<"A">>

\* C12: when the active subscription signals a delivery error, the held list
\* stays exactly as it was, a "Sync error" notice is raised, and the loading
\* state ends.
C12_ErrorKeepsList ==
    [][\A s \in subs :
          (s.id = effectSub /\ s.live /\ \E t \in subs' : t.id = s.id /\ ~t.live)
          => /\ chores' = chores
             /\ view' = view
             /\ ~loadingChores'
             /\ \E t \in subs' : /\ t.id = s.id
                                 /\ t.alerts = Append(s.alerts, "Sync error")]_vars

\* the active subscription has failed after a snapshot: the notice is up, the
\* list of the last snapshot is still held and nothing is loading
C12_Witness ==
    \E s \in subs :
        /\ s.id = effectSub
        /\ ~s.live
        /\ s.alerts = <<"Sync error">>
        /\ chores # <<>>
        /\ ~loadingChores

\* what a load after a restart would hand to setProfile
Loaded == IF Truthy(stored) THEN Parse(stored.v) ELSE NoProfile

\* C13: after any sequence of save and clear operations, whenever no save or
\* clear is in flight, the in-memory profile is the profile a load after a
\* restart would return (the one the last save wrote, or none after a clear).
C13_ProfileAgreesWithStore ==
    (commands > 0 /\ kvOps = <<>>) => profile = Loaded

\* the invocation's typed title or assignee is blank
Blank(a) == Trim(a.title) = <<>> \/ Trim(a.assignee) = <<>>

\* C14: a chore is written only by a create-chore invocation whose trimmed
\* title and assignee are both non-empty, and it is written with status
\* pending, photoUrl null, the familyCode of the creating profile and the
\* trimmed title and assignee; an invocation with a blank title or assignee
\* writes nothing.
C14_CreatedChore ==
    /\ [](\A i \in 1..Len(adds) :
             Blank(adds[i]) <=> (adds[i].pc = "invalid" /\ adds[i].issued = 0))
    /\ [][Len(remote') # Len(remote) =>
             /\ Len(remote') = Len(remote) + 1
             /\ \E i \in 1..Len(adds) :
                    /\ ~Blank(adds[i])
                    /\ adds[i].pc = "addDoc" /\ adds'[i].pc = "done"
                    /\ LET doc == remote'[Len(remote')]
                       IN  /\ doc.title = Str(Trim(adds[i].title))
                           /\ doc.assignedTo = Str(Trim(adds[i].assignee))
                           /\ doc.familyCode = Str(adds[i].profile.familyCode)
                           /\ doc.status = Str(<<"pending">>)
                           /\ doc.photoUrl = Null
                           /\ doc.createdAt = Time(now)]_vars

\* one invocation with a blank field wrote nothing, and another whose typed
\* text needed trimming wrote its chore
C14_Witness ==
    \E i, j \in 1..Len(adds) :
        /\ adds[i].pc = "invalid"
        /\ adds[j].pc = "done"
        /\ adds[j].title # Trim(adds[j].title)
        /\ adds[j].assignee # Trim(adds[j].assignee)
        /\ \E d \in 1..Len(remote) :
               /\ remote[d].title = Str(Trim(adds[j].title))
               /\ remote[d].createdAt.v > 0

\* the list cs is the content of the collection for family f: one chore per
\* document of the family, newest first, each carrying its document's data
IsContentOf(cs, f) ==
    /\ {cs[k].id : k \in 1..Len(cs)} =
           {i \in 1..Len(remote) : remote[i].familyCode = Str(f)}
    /\ \A k, l \in 1..Len(cs) : k < l =>
           /\ cs[k].id # cs[l].id
           /\ cs[k].createdAt.v >= cs[l].createdAt.v
    /\ \A k \in 1..Len(cs) :
           LET doc == remote[cs[k].id]
           IN  /\ cs[k].title = doc.title
               /\ cs[k].assignedTo = doc.assignedTo
               /\ cs[k].familyCode = doc.familyCode
               /\ cs[k].status = doc.status
               /\ cs[k].photoUrl = doc.photoUrl
               /\ cs[k].completedBy = doc.completedBy
               /\ cs[k].createdAt = doc.createdAt
               /\ cs[k].completedAt = doc.completedAt

\* C15: the sync engine starts loading when a profile becomes available; a
\* snapshot delivery ends loading and leaves the held list equal to the
\* delivered snapshot (the family's documents, newest first), whatever was
\* held before; nothing but a delivery changes the held list.
C15_SyncEngine ==
    /\ [][(profile' # profile /\ profile' # NoProfile) =>
             (loadingChores' /\ \E s \in subs' : s.id = effectSub' /\ s.live)]_vars
    /\ [][\A s \in subs : OnSnapshotNext(s) =>
             (~loadingChores' /\ IsContentOf(chores', s.familyCode))]_vars
    /\ [][chores' # chores => \E s \in subs : OnSnapshotNext(s)]_vars

\* a second delivery has replaced a one-chore list by the two chores of the
\* family, the newer one first
C15_Witness ==
    /\ profile # NoProfile
    /\ ~loadingChores
    /\ Len(chores) = 2
    /\ chores[1].createdAt.v > chores[2].createdAt.v
    /\ chores[1].id > chores[2].id

Absent(v) == v = Undefined \/ v = Null

\* C16: every chore held after a delivery has status, assignedTo and
\* familyCode defined, whatever its raw record lacks: an absent status is
\* "pending", an absent assignedTo or familyCode is the empty string, and a
\* value that is present is the raw record's value.
C16_Normalized ==
    \A k \in 1..Len(chores) :
        LET c == chores[k]
            raw == remote[c.id]
        IN  /\ c.status.tag = "string"
            /\ c.assignedTo.tag = "string"
            /\ c.familyCode.tag = "string"
            /\ c.status = IF Absent(raw.status) THEN Str(<<"pending">>)
                          ELSE raw.status
            /\ c.assignedTo = IF Absent(raw.assignedTo) THEN Str(<<>>)
                              ELSE raw.assignedTo
            /\ c.familyCode = IF Absent(raw.familyCode) THEN Str(<<>>)
                              ELSE raw.familyCode

\* a held chore whose raw record has neither status nor familyCode but has an
\* assignee, next to one whose raw record has all three
C16_Witness ==
    \E k, l \in 1..Len(chores) :
        /\ remote[chores[k].id].status = Undefined
        /\ remote[chores[k].id].familyCode = Undefined
        /\ remote[chores[k].id].assignedTo = Str(<<"s", "a", "m">>)
        /\ chores[k].status = Str(<<"pending">>)
        /\ chores[k].familyCode = Str(<<>>)
        /\ chores[k].assignedTo = Str(<<"s", "a", "m">>)
        /\ chores[l].status = Str(<<"completed">>)
        /\ chores[l].familyCode = Str(<<"a">>)

\* document c carries the result of run r: completed, with that run's
\* photo and that run's invoker
WrittenBy(doc, r) ==
    /\ doc.status = Str(<<"completed">>)
    /\ doc.photoUrl = r.downloadUrl
    /\ doc.completedBy = Str(r.profile.displayName)

\* C17: runs for the same chore proceed side by side, each with its own
\* upload and its own update; whenever a run's update is applied the chore
\* is completed with photoUrl and completedBy both of that run, a chore
\* changes in no other step, and a completed chore always carries photoUrl
\* and completedBy of one single finished run.
C17_NoMixture ==
    /\ [][\A r \in 1..Len(runs) :
             (runs[r].pc = "updateDoc" /\ runs'[r].pc = "done") =>
                 WrittenBy(remote'[runs[r].chore], runs[r])]_vars
    /\ [][\A c \in 1..Len(remote) :
             remote'[c] # remote[c] =>
                 \E r \in 1..Len(runs) :
                     /\ runs[r].chore = c
                     /\ runs[r].pc = "updateDoc" /\ runs'[r].pc = "done"]_vars
    /\ [](\A c \in 1..Len(remote) :
             remote[c].status = Str(<<"completed">>) =>
                 \E r \in 1..Len(runs) :
                     /\ runs[r].chore = c
                     /\ runs[r].pc = "done"
                     /\ WrittenBy(remote[c], runs[r]))
    /\ [](\A r \in 1..Len(runs) :
             runs[r].pc = "done" =>
                 /\ runs[r].uploads = 1 /\ runs[r].updates = 1
                 /\ RunPath(runs[r]) \in storage
                 /\ runs[r].downloadUrl = DownloadUrl(RunPath(runs[r])))

\* two runs for the same chore have both finished, each with its own photo,
\* and the chore carries the photo of the second
C17_Witness ==
    /\ Len(runs) = 2
    /\ runs[1].chore = runs[2].chore
    /\ runs[1].pc = "done" /\ runs[2].pc = "done"
    /\ runs[1].downloadUrl # runs[2].downloadUrl
    /\ remote[runs[2].chore].photoUrl = runs[2].downloadUrl
    /\ remote[runs[2].chore].completedAt.v > runs[2].ts

\* C18: a run is not cancelled by a profile change: it keeps the profile it
\* was invoked with, a step that changes the profile leaves every run as it
\* is, every started run eventually reaches a terminal outcome, and a run
\* that reaches the write records completedBy as the displayName of the
\* profile it was invoked with.
C18_RunNotCancelled ==
    /\ [][/\ Len(runs') >= Len(runs)
          /\ \A r \in 1..Len(runs) : runs'[r].profile = runs[r].profile
          /\ Len(runs') > Len(runs) => runs'[Len(runs')].profile = profile
          /\ profile' # profile => runs' = runs]_vars
    /\ [][\A r \in 1..Len(runs) :
             (runs[r].pc = "updateDoc" /\ runs'[r].pc = "done") =>
                 remote'[runs[r].chore].completedBy =
                     Str(runs[r].profile.displayName)]_vars
    /\ \A r \in 1..MaxCommands :
           (Len(runs) >= r) ~> (Len(runs) >= r /\ runs[r].pc \in Terminal)

\* a run has completed its chore in the name of its invoker although the
\* profile was cleared while it was in flight
C18_Witness ==
    \E r \in 1..Len(runs) :
        /\ runs[r].pc = "done"
        /\ profile = NoProfile
        /\ remote[runs[r].chore].completedBy = Str(runs[r].profile.displayName)

\* the value is the retrieval URL of an object held in storage
IsProofUrl(v) == \E path \in storage : v = DownloadUrl(path)

\* C19: in every reachable state of the collection, a chore is completed if
\* and only if its photoUrl is the retrieval URL of an uploaded object and
\* its completedBy is set; a pending chore has photoUrl null and neither
\* completedBy nor completedAt.
C19_CompletedIffProof ==
    \A c \in 1..Len(remote) :
        LET doc == remote[c]
        IN  /\ doc.status \in {Str(<<"pending">>), Str(<<"completed">>)}
            /\ doc.status = Str(<<"completed">>) <=>
                   (IsProofUrl(doc.photoUrl) /\ doc.completedBy.tag = "string")
            /\ doc.status = Str(<<"completed">>) =>
                   doc.completedAt.tag = "timestamp"
            /\ doc.status = Str(<<"pending">>) =>
                   /\ doc.photoUrl = Null
                   /\ doc.completedBy = Undefined
                   /\ doc.completedAt = Undefined

\* a chore that was created pending has been completed by an upload
C19_Witness ==
    \E c \in 1..Len(remote) :
        /\ remote[c].status = Str(<<"completed">>)
        /\ IsProofUrl(remote[c].photoUrl)
        /\ remote[c].completedBy = Str(<<"S", "a", "m">>)
        /\ remote[c].completedAt.v > remote[c].createdAt.v

\* C20: every run that has issued an upload or an update targets a chore
\* whose familyCode is the familyCode of the profile that invoked the run,
\* which is also the family segment of the run's storage path.
C20_RunTargetsOwnFamily ==
    \A r \in 1..Len(runs) :
        (runs[r].uploads > 0 \/ runs[r].updates > 0) =>
            /\ remote[runs[r].chore].familyCode = Str(runs[r].profile.familyCode)
            /\ RunPath(runs[r]).familyCode = remote[runs[r].chore].familyCode.v
====
